---- MODULE Spec2Model ----
(***************************************************************************)
(* Model of PartB/src/main.go: the ETH price pipeline                      *)
(*   FetchPrice / parseResponse   (one source adapter call)                *)
(*   fetchAndCalculatePrice       (goroutine fork-join over five adapters) *)
(*   calculateAverageAndConvertToAUD (mean of valid prices, AUD scaling)   *)
(*   main                         (the one call, then the input loop)      *)
(*                                                                         *)
(* float64 is modelled as a binary floating-point format with MantBits     *)
(* significant bits, round-to-nearest-even after every operation, with     *)
(* NaN and the infinities, and an unbounded exponent (no overflow to Inf,  *)
(* no subnormals).  Every arithmetic step of the source is one rounded     *)
(* operation here, in the order the source performs it.                    *)
(***************************************************************************)
EXTENDS Integers, Sequences, FiniteSets, TLC

\* ------------------------------------------------------------------ bounds
\* significant bits of the modelled float64 (the real format has 53)
MantBits == 12
\* longest JSON array enumerated for the Bitfinex decoder
MaxArr == 8
\* longest result slice enumerated for calculateAverageAndConvertToAUD
MaxResults == 4
\* most lines of input main's loop is given before its input ends
MaxInputs == 2

\* ------------------------------------------------------------- float64
RECURSIVE Pow2(_)
Pow2(k) == IF k <= 0 THEN 1 ELSE 2 * Pow2(k - 1)

RECURSIVE Pow10(_)
Pow10(k) == IF k <= 0 THEN 1 ELSE 10 * Pow10(k - 1)

Abs(x) == IF x < 0 THEN -x ELSE x

\* a float64 value: finite m * 2^e (m = 0, or 2^(MantBits-1) <= |m| < 2^MantBits),
\* NaN, or an infinity whose sign is the sign of m
Fin(m, e) == [k |-> "fin", m |-> m, e |-> e]
Zero == Fin(0, 0)
NaN == [k |-> "nan", m |-> 0, e |-> 0]
Inf(s) == [k |-> "inf", m |-> s, e |-> 0]

IsNaN(x) == x.k = "nan"
Sign(x) == IF x.m > 0 THEN 1 ELSE IF x.m < 0 THEN -1 ELSE 0

\* the float nearest to s * n / (d * 2^-e) = s * (n/d) * 2^e, for n > 0, d > 0:
\* scale into [2^(MantBits-1), 2^MantBits), then round half to even
MantLo == Pow2(MantBits - 1)
MantHi == Pow2(MantBits)

RECURSIVE RoundQ(_, _, _, _)
RoundQ(s, n, d, e) ==
    IF n < MantLo * d THEN RoundQ(s, 2 * n, d, e - 1)
    ELSE IF n >= MantHi * d THEN RoundQ(s, n, 2 * d, e + 1)
    ELSE LET q == n \div d
             r == n % d
             up == (2 * r > d) \/ (2 * r = d /\ q % 2 = 1)
             m == IF up THEN q + 1 ELSE q
         IN  IF m = MantHi THEN Fin(s * MantLo, e + 1)
             ELSE Fin(s * m, e)

\* the float nearest to the rational n/d (d > 0)
FromRatio(n, d) == IF n = 0 THEN Zero
                   ELSE RoundQ(IF n < 0 THEN -1 ELSE 1, Abs(n), d, 0)

\* float64(count), and the float a JSON integer literal decodes to
FromInt(n) == FromRatio(n, 1)

\* The arithmetic operators act on the values a and b of their operands,
\* named x and y.
\* x + y
FAdd(a, b) ==
    CHOOSE r \in {
        IF IsNaN(x) \/ IsNaN(y) THEN NaN
        ELSE IF x.k = "inf" /\ y.k = "inf" THEN (IF x.m = y.m THEN x ELSE NaN)
        ELSE IF x.k = "inf" THEN x
        ELSE IF y.k = "inf" THEN y
        ELSE IF x.m = 0 THEN y
        ELSE IF y.m = 0 THEN x
        ELSE IF x.e - y.e > MantBits + 2 THEN x
        ELSE IF y.e - x.e > MantBits + 2 THEN y
        ELSE LET e == IF x.e < y.e THEN x.e ELSE y.e
                 n == x.m * Pow2(x.e - e) + y.m * Pow2(y.e - e)
             IN  IF n = 0 THEN Zero
                 ELSE RoundQ(IF n < 0 THEN -1 ELSE 1, Abs(n), 1, e)
        : x \in {a}, y \in {b} } : TRUE

\* x * y
FMul(a, b) ==
    CHOOSE r \in {
        IF IsNaN(x) \/ IsNaN(y) THEN NaN
        ELSE IF x.k = "inf" \/ y.k = "inf"
             THEN (IF Sign(x) * Sign(y) = 0 THEN NaN ELSE Inf(Sign(x) * Sign(y)))
        ELSE IF x.m = 0 \/ y.m = 0 THEN Zero
        ELSE RoundQ(Sign(x) * Sign(y), Abs(x.m) * Abs(y.m), 1, x.e + y.e)
        : x \in {a}, y \in {b} } : TRUE

\* x / y
FDiv(a, b) ==
    CHOOSE r \in {
        IF IsNaN(x) \/ IsNaN(y) THEN NaN
        ELSE IF x.k = "inf" /\ y.k = "inf" THEN NaN
        ELSE IF x.k = "inf" THEN Inf(IF Sign(y) < 0 THEN -x.m ELSE x.m)
        ELSE IF y.k = "inf" THEN Zero
        ELSE IF y.m = 0 THEN (IF x.m = 0 THEN NaN ELSE Inf(Sign(x)))
        ELSE IF x.m = 0 THEN Zero
        ELSE RoundQ(Sign(x) * Sign(y), Abs(x.m), Abs(y.m), x.e - y.e)
        : x \in {a}, y \in {b} } : TRUE

\* x <= 0   (false for NaN, as every comparison with NaN is)
FLeZero(x) == ~IsNaN(x) /\ x.m <= 0

\* x == 0
FIsZero(x) == x.k = "fin" /\ x.m = 0

\* x > 0
FPositive(x) == ~IsNaN(x) /\ x.m > 0


\* ------------------------------------------------------------------ JSON
\* a response body: bytes that are not JSON ("bad"), or a JSON value.  Strings
\* are sequences of one-character strings; a number literal is n/d with d a
\* power of ten.
JBad == [t |-> "bad", v |-> 0]
JNull == [t |-> "null", v |-> 0]
JNum(n, d) == [t |-> "num", v |-> <<n, d>>]
JStr(s) == [t |-> "str", v |-> s]
JArr(a) == [t |-> "arr", v |-> a]
JObj(f) == [t |-> "obj", v |-> f]

\* json.Unmarshal accepts a JSON value for a Go type when the value is null or
\* has the type's shape (fields of a struct that the value lacks keep their
\* zero value, keys the struct does not name are skipped)
FitsFloat(j) == j.t \in {"num", "null"}
FitsString(j) == j.t \in {"str", "null"}
FitsMapFloat(j) ==
    j.t = "null" \/ (j.t = "obj" /\ \A k \in DOMAIN j.v : FitsFloat(j.v[k]))
FitsMapMapFloat(j) ==
    j.t = "null" \/ (j.t = "obj" /\ \A k \in DOMAIN j.v : FitsMapFloat(j.v[k]))
FitsMapString(j) ==
    j.t = "null" \/ (j.t = "obj" /\ \A k \in DOMAIN j.v : FitsString(j.v[k]))
FitsSliceString(j) ==
    j.t = "null" \/ (j.t = "arr" /\ \A i \in DOMAIN j.v : FitsString(j.v[i]))
FitsSliceFloat(j) ==
    j.t = "null" \/ (j.t = "arr" /\ \A i \in DOMAIN j.v : FitsFloat(j.v[i]))
FitsAmount(j) ==
    j.t = "null" \/ (j.t = "obj" /\ ("amount" \in DOMAIN j.v => FitsString(j.v["amount"])))
FitsCoinbase(j) ==
    j.t = "null" \/ (j.t = "obj" /\ ("data" \in DOMAIN j.v => FitsAmount(j.v["data"])))
FitsC(j) ==
    j.t = "null" \/ (j.t = "obj" /\ ("c" \in DOMAIN j.v => FitsSliceString(j.v["c"])))
FitsResult(j) ==
    j.t = "null" \/ (j.t = "obj" /\ \A k \in DOMAIN j.v : FitsC(j.v[k]))
FitsKraken(j) ==
    j.t = "null" \/ (j.t = "obj" /\ ("result" \in DOMAIN j.v => FitsResult(j.v["result"])))

\* the decoded value: a map or struct lookup (a missing key or field gives the
\* zero value, as a null does), a float64, a string, a slice
Get(j, key) == IF j.t = "obj" /\ key \in DOMAIN j.v THEN j.v[key] ELSE JNull
Keys(j) == IF j.t = "obj" THEN DOMAIN j.v ELSE {}
NumOf(j) == IF j.t = "num" THEN FromRatio(j.v[1], j.v[2]) ELSE Zero
StrOf(j) == IF j.t = "str" THEN j.v ELSE <<>>
SliceOf(j) == IF j.t = "arr" THEN j.v ELSE <<>>

\* ---------------------------------------------------- strconv.ParseFloat
\* Modelled for text over signs, digits, '.', ',' and letters: the decimal
\* forms [+-]digits[.digits] and the special values NaN, [+-]Inf, [+-]Infinity
\* (any case).  Exponent, hexadecimal and underscore forms are not enumerated.
Digits == <<"0", "1", "2", "3", "4", "5", "6", "7", "8", "9">>
IsDigit(c) == \E i \in 1..10 : Digits[i] = c
DigitVal(c) == (CHOOSE i \in 1..10 : Digits[i] = c) - 1

Lower(c) == CASE c = "N" -> "n" [] c = "A" -> "a" [] c = "I" -> "i"
              [] c = "F" -> "f" [] c = "T" -> "t" [] c = "Y" -> "y"
              [] OTHER -> c
LowerStr(s) == [i \in 1..Len(s) |-> Lower(s[i])]

RECURSIVE DecimalValue(_, _)
DecimalValue(s, acc) ==
    IF s = <<>> THEN acc ELSE DecimalValue(Tail(s), 10 * acc + DigitVal(Head(s)))

\* [v |-> the float, ok |-> no syntax error]
ParseFloat(s) ==
    LET signed == s # <<>> /\ Head(s) \in {"+", "-"}
        sgn == IF signed /\ Head(s) = "-" THEN -1 ELSE 1
        body == IF signed THEN Tail(s) ELSE s
        low == LowerStr(body)
        dots == {i \in 1..Len(body) : body[i] = "."}
        cut == IF dots = {} THEN Len(body) + 1 ELSE CHOOSE i \in dots : TRUE
        ip == SubSeq(body, 1, cut - 1)
        fp == SubSeq(body, cut + 1, Len(body))
        allDigits == \A i \in 1..Len(body) : i = cut \/ IsDigit(body[i])
    IN  IF low = <<"n", "a", "n">> /\ ~signed THEN [v |-> NaN, ok |-> TRUE]
        ELSE IF low = <<"i", "n", "f">>
                \/ low = <<"i", "n", "f", "i", "n", "i", "t", "y">>
             THEN [v |-> Inf(sgn), ok |-> TRUE]
        ELSE IF Cardinality(dots) <= 1 /\ allDigits /\ Len(ip) + Len(fp) >= 1
             THEN [v |-> FromRatio(sgn * DecimalValue(ip \o fp, 0), Pow10(Len(fp))),
                   ok |-> TRUE]
        ELSE [v |-> Zero, ok |-> FALSE]

\* ------------------------------------------------------- API.parseResponse
\* the value left in *price, the error returned ("nil" for none), and whether
\* the call panicked instead of returning
ParseOut(price, err, panic) == [price |-> price, err |-> err, panic |-> panic]

parseCoinGecko(body) ==
    IF body.t = "bad" \/ ~FitsMapMapFloat(body) THEN {ParseOut(Zero, "json", FALSE)}
    ELSE {ParseOut(NumOf(Get(Get(body, "ethereum"), "usd")), "nil", FALSE)}

parseCoinbase(body) ==
    IF body.t = "bad" \/ ~FitsCoinbase(body) THEN {ParseOut(Zero, "json", FALSE)}
    ELSE LET r == ParseFloat(StrOf(Get(Get(body, "data"), "amount")))
         IN  {ParseOut(r.v, IF r.ok THEN "nil" ELSE "strconv", FALSE)}

parseBitstamp(body) ==
    IF body.t = "bad" \/ ~FitsMapString(body) THEN {ParseOut(Zero, "json", FALSE)}
    ELSE LET r == ParseFloat(StrOf(Get(body, "last")))
         IN  {ParseOut(r.v, IF r.ok THEN "nil" ELSE "strconv", FALSE)}

\* the first entry a range over data.Result yields is any of its entries; with
\* no entry the loop body never runs and *price keeps its zero value; v.C[0]
\* on an empty (or absent) list is an index-out-of-range panic
parseKraken(body) ==
    IF body.t = "bad" \/ ~FitsKraken(body) THEN {ParseOut(Zero, "json", FALSE)}
    ELSE LET result == Get(body, "result")
         IN  IF Keys(result) = {} THEN {ParseOut(Zero, "nil", FALSE)}
             ELSE { LET C == SliceOf(Get(result.v[k], "c"))
                        r == ParseFloat(StrOf(C[1]))
                    IN  IF Len(C) = 0 THEN ParseOut(Zero, "nil", TRUE)
                        ELSE ParseOut(r.v, IF r.ok THEN "nil" ELSE "strconv", FALSE)
                    : k \in Keys(result) }

BitfinexLen == 7

\* parseBitfinex reading the element before the documented index
parseBitfinex_OffByOne(body) ==
    IF body.t = "bad" \/ ~FitsSliceFloat(body) THEN {ParseOut(Zero, "json", FALSE)}
    ELSE LET data == SliceOf(body)
         IN  IF Len(data) < BitfinexLen
             THEN {ParseOut(Zero, "invalid data length from Bitfinex", FALSE)}
             ELSE {ParseOut(NumOf(data[BitfinexLen - 1]), "nil", FALSE)}

parseBitfinex(body) ==
    IF body.t = "bad" \/ ~FitsSliceFloat(body) THEN {ParseOut(Zero, "json", FALSE)}
    ELSE LET data == SliceOf(body)
         IN  IF Len(data) < BitfinexLen
             THEN {ParseOut(Zero, "invalid data length from Bitfinex", FALSE)}
             ELSE {ParseOut(NumOf(data[BitfinexLen]), "nil", FALSE)}

\* the set of ways parseResponse(body, &price) can end for adapter `name`
parseResponse(name, body) ==
    CASE name = "CoinGecko" -> parseCoinGecko(body)
      [] name = "Coinbase" -> parseCoinbase(body)
      [] name = "Bitstamp" -> parseBitstamp(body)
      [] name = "Kraken" -> parseKraken(body)
      [] name = "Bitfinex" -> parseBitfinex(body)
      [] OTHER -> {ParseOut(Zero, "unknown API", FALSE)}

\* ----------------------------------------------------------- API.FetchPrice
\* what client.Get and io.ReadAll deliver: a transport error (connection,
\* timeout), or a status with a body whose read may fail
Response(neterr, status, readerr, body) ==
    [neterr |-> neterr, status |-> status, readerr |-> readerr, body |-> body]

StatusOK == 200

\* (price, err) returned, or a panic that unwinds the calling goroutine
FetchOut(price, err, panic) == [price |-> price, err |-> err, panic |-> panic]

\* FetchPrice with the status check moved after the decoding
FetchPrice_StatusAfterParse(name, resp) ==
    IF resp.neterr THEN {FetchOut(Zero, "request failed", FALSE)}
    ELSE IF resp.readerr THEN {FetchOut(Zero, "reading body failed", FALSE)}
    ELSE { IF p.panic THEN FetchOut(Zero, "nil", TRUE)
           ELSE IF p.err # "nil"
                THEN (IF resp.status # StatusOK
                      THEN FetchOut(Zero, "non-OK status code", FALSE)
                      ELSE FetchOut(Zero, "parsing response failed", FALSE))
           ELSE IF FLeZero(p.price) THEN FetchOut(Zero, "invalid price", FALSE)
           ELSE FetchOut(p.price, "nil", FALSE)
           : p \in parseResponse(name, resp.body) }

FetchPrice(name, resp) ==
    IF resp.neterr THEN {FetchOut(Zero, "request failed", FALSE)}
    ELSE IF resp.status # StatusOK THEN {FetchOut(Zero, "non-OK status code", FALSE)}
    ELSE IF resp.readerr THEN {FetchOut(Zero, "reading body failed", FALSE)}
    ELSE { IF p.panic THEN FetchOut(Zero, "nil", TRUE)
           ELSE IF p.err # "nil" THEN FetchOut(Zero, "parsing response failed", FALSE)
           ELSE IF FLeZero(p.price) THEN FetchOut(Zero, "invalid price", FALSE)
           ELSE FetchOut(p.price, "nil", FALSE)
           : p \in parseResponse(name, resp.body) }

\* ------------------------------------------ calculateAverageAndConvertToAUD
PriceResult(price, err, name) == [price |-> price, err |-> err, name |-> name]

\* the loop over results: sum += result.price, in slice order, for err == nil
RECURSIVE SumValid(_, _)
SumValid(rs, sum) ==
    IF rs = <<>> THEN sum
    ELSE SumValid(Tail(rs), IF Head(rs).err = "nil" THEN FAdd(sum, Head(rs).price)
                                                    ELSE sum)

\* the loop with count++ outside the err == nil test
RECURSIVE CountValid_CountsAll(_, _)
CountValid_CountsAll(rs, count) ==
    IF rs = <<>> THEN count ELSE CountValid_CountsAll(Tail(rs), count + 1)

RECURSIVE CountValid(_, _)
CountValid(rs, count) ==
    IF rs = <<>> THEN count
    ELSE CountValid(Tail(rs), IF Head(rs).err = "nil" THEN count + 1 ELSE count)

\* averageUSD := sum / float64(count)
Average(rs) == FDiv(SumValid(rs, Zero), FromInt(CountValid(rs, 0)))

\* (audPrice, err) of the exchange-rate stage, given averageUSD and what the
\* GET and the JSON decoder deliver.  The status code is not examined.
Return(price, err) == [price |-> price, err |-> err]

\* the conversion with the ratio inverted (usdRate / audRate)
ConvertToAUD_Inverted(avg, resp) ==
    IF resp.neterr THEN Return(Zero, "failed to get exchange rates")
    ELSE IF resp.readerr \/ resp.body.t = "bad" \/ ~FitsMapMapFloat(resp.body)
         THEN Return(Zero, "failed to decode exchange rates")
    ELSE LET ethData == Get(resp.body, "ethereum")
             usdRate == NumOf(Get(ethData, "usd"))
             audRate == NumOf(Get(ethData, "aud"))
         IN  IF FIsZero(usdRate) \/ FIsZero(audRate)
             THEN Return(Zero, "invalid exchange rates")
             ELSE Return(FMul(avg, FDiv(usdRate, audRate)), "nil")

\* the conversion testing only the quote rate against zero
ConvertToAUD_NoTargetCheck(avg, resp) ==
    IF resp.neterr THEN Return(Zero, "failed to get exchange rates")
    ELSE IF resp.readerr \/ resp.body.t = "bad" \/ ~FitsMapMapFloat(resp.body)
         THEN Return(Zero, "failed to decode exchange rates")
    ELSE LET ethData == Get(resp.body, "ethereum")
             usdRate == NumOf(Get(ethData, "usd"))
             audRate == NumOf(Get(ethData, "aud"))
         IN  IF FIsZero(usdRate)
             THEN Return(Zero, "invalid exchange rates")
             ELSE Return(FMul(avg, FDiv(audRate, usdRate)), "nil")

ConvertToAUD(avg, resp) ==
    IF resp.neterr THEN Return(Zero, "failed to get exchange rates")
    ELSE IF resp.readerr \/ resp.body.t = "bad" \/ ~FitsMapMapFloat(resp.body)
         THEN Return(Zero, "failed to decode exchange rates")
    ELSE LET ethData == Get(resp.body, "ethereum")
             usdRate == NumOf(Get(ethData, "usd"))
             audRate == NumOf(Get(ethData, "aud"))
         IN  IF FIsZero(usdRate) \/ FIsZero(audRate)
             THEN Return(Zero, "invalid exchange rates")
             ELSE Return(FMul(avg, FDiv(audRate, usdRate)), "nil")

\* ------------------------------------------------------------------ inputs
Chars(n) == LET d(i) == Digits[((n \div Pow10(i)) % 10) + 1]
            IN  IF n >= 1000 THEN <<d(3), d(2), d(1), d(0)>>
                ELSE IF n >= 100 THEN <<d(2), d(1), d(0)>>
                ELSE IF n >= 10 THEN <<d(1), d(0)>>
                ELSE <<d(0)>>

Obj1(k, x) == JObj(k :> x)
Obj2(k1, x1, k2, x2) == JObj(k1 :> x1 @@ k2 :> x2)

CoinGeckoBody(n) == Obj1("ethereum", Obj1("usd", JNum(n, 1)))
CoinbaseBody(s) == Obj1("data", Obj2("base", JStr(<<"E", "T", "H">>), "amount", JStr(s)))
BitstampBody(s) == Obj2("last", JStr(s), "high", JStr(Chars(3100)))
KrakenBody(C) == Obj2("error", JArr(<<>>), "result", Obj1("XETHZUSD", Obj1("c", JArr(C))))
BitfinexBody(len, n) == JArr([i \in 1..len |-> JNum(IF i = BitfinexLen THEN n ELSE i, 1)])
RatesBody(usd, aud) == Obj1("ethereum", Obj2("usd", JNum(usd, 1), "aud", JNum(aud, 1)))

OK(body) == Response(FALSE, StatusOK, FALSE, body)
NetErr == Response(TRUE, 0, FALSE, JBad)

fetchers == <<"CoinGecko", "Coinbase", "Bitstamp", "Kraken", "Bitfinex">>
Names == {fetchers[i] : i \in 1..Len(fetchers)}

\* what each source may answer in a run of fetchAndCalculatePrice
SourceResponses(name) ==
    CASE name = "CoinGecko" -> <<OK(CoinGeckoBody(2991)), NetErr>>
      [] name = "Coinbase" ->
            <<OK(CoinbaseBody(Chars(3010))), Response(FALSE, 500, FALSE, JBad)>>
      [] name = "Bitstamp" -> <<OK(BitstampBody(Chars(3001))), OK(JBad)>>
      [] name = "Kraken" ->
            <<OK(KrakenBody(<<JStr(Chars(3000)), JStr(Chars(1))>>)),
              OK(Obj1("error", JArr(<<JStr(<<"E">>)>>))),
              OK(KrakenBody(<<>>))>>
      [] name = "Bitfinex" -> <<OK(BitfinexBody(10, 2990)), OK(BitfinexBody(6, 2990))>>

\* what the exchange-rate source may answer
RateResponses ==
    <<OK(RatesBody(3000, 4500)), OK(RatesBody(2991, 4507)), NetErr, OK(JBad),
      OK(Obj1("ethereum", Obj1("usd", JNum(3000, 1)))),
      OK(RatesBody(0, 4500)), OK(RatesBody(-3000, 4500)),
      OK(RatesBody(3000, 0)), OK(Obj1("ethereum", Obj1("aud", JNum(4500, 1)))),
      OK(Obj1("ethereum", Obj2("usd", JStr(Chars(3000)), "aud", JNum(4500, 1)))),
      Response(FALSE, StatusOK, TRUE, RatesBody(3000, 4500)), OK(JNull),
      Response(FALSE, 429, FALSE, Obj1("status", Obj1("error_code", JNum(429, 1))))>>

\* what FetchPrice can return to each goroutine, over its source's answers
SourceOutcomes ==
    [f \in Names |->
        UNION {FetchPrice(f, SourceResponses(f)[i]) : i \in DOMAIN SourceResponses(f)}]

\* ------------------------------------------------------------------- state
VARIABLES
    mpc,          \* where the goroutine running fetchAndCalculatePrice is
    next,         \* index of the next fetcher the launch loop starts
    tpc,          \* where each fetch goroutine is
    tret,         \* each fetch goroutine's (price, err) from FetchPrice
    wg,           \* the WaitGroup counter
    resultsChan,  \* the buffered channel's queue
    closed,       \* whether resultsChan is closed
    results,      \* the slice collected from the channel / passed to the aggregator
    averageUSD,   \* the aggregator's mean, once computed
    rateResp,     \* what the exchange-rate GET delivered, once issued
    ret,          \* what calculateAverageAndConvertToAUD returned
    crashed,      \* the process died of an unrecovered panic
    fetchCall,    \* one isolated FetchPrice call: adapter, response, outcome
    gets,         \* GET requests issued so far, per source and for the rates
    calls,        \* how many times main has called fetchAndCalculatePrice
    cpc,          \* where main is
    avgAUD,       \* main's avgAUD
    mainErr,      \* main's err
    reads,        \* input lines main's scanner has delivered
    line          \* the last line main printed

mainVars == <<calls, cpc, avgAUD, mainErr, reads, line>>

vars == <<mpc, next, tpc, tret, wg, resultsChan, closed, results, averageUSD,
          rateResp, ret, crashed, fetchCall, gets, mainVars>>

Unset == [k |-> "unset", m |-> 0, e |-> 0]
NoResponse == Response(FALSE, 0, FALSE, JNull)
NoReturn == Return(Zero, "unset")
NoFetch == FetchOut(Zero, "unset", FALSE)
NoCall == [name |-> "", resp |-> NetErr, out |-> NoFetch]

\* the exchange-rate endpoint, beside the five sources, as a key of gets
Rates == "rates"
NoGets == [u \in Names \cup {Rates} |-> 0]

\* a line main prints: what it says, the amount read, the ETH amount computed
Line(kind, aud, eth) == [kind |-> kind, aud |-> aud, eth |-> eth]
NoLine == Line("none", Unset, Unset)

\* ------------------------------------------------ fetchAndCalculatePrice
Init ==
    /\ mpc = "off"
    /\ next = 1
    /\ tpc = [f \in Names |-> "idle"]
    /\ tret = [f \in Names |-> NoFetch]
    /\ wg = 0
    /\ resultsChan = <<>>
    /\ closed = FALSE
    /\ results = <<>>
    /\ averageUSD = Unset
    /\ rateResp = NoResponse
    /\ ret = NoReturn
    /\ crashed = FALSE
    /\ fetchCall = NoCall
    /\ gets = NoGets
    /\ calls = 0
    /\ cpc = "start"
    /\ avgAUD = Unset
    /\ mainErr = "unset"
    /\ reads = 0
    /\ line = NoLine

\* avgAUD, err := fetchAndCalculatePrice(): main enters the call
MainCall ==
    /\ ~crashed /\ cpc = "start"
    /\ cpc' = "call"
    /\ calls' = calls + 1
    /\ mpc' = "launch"
    /\ UNCHANGED <<next, tpc, tret, wg, resultsChan, closed, results, averageUSD, rateResp,
                   ret, crashed, fetchCall, gets, avgAUD, mainErr, reads, line>>

\* for _, fetcher := range fetchers { wg.Add(1); go func(f) {...}(fetcher) }
Launch ==
    /\ ~crashed /\ mpc = "launch" /\ next <= Len(fetchers)
    /\ wg' = wg + 1
    /\ tpc' = [tpc EXCEPT ![fetchers[next]] = "fetch"]
    /\ next' = next + 1
    /\ mpc' = IF next = Len(fetchers) THEN "wait" ELSE "launch"
    /\ UNCHANGED <<tret, resultsChan, closed, results, averageUSD, rateResp, ret, crashed,
                   fetchCall>>
    /\ UNCHANGED <<gets, mainVars>>

\* a fetch goroutine that calls FetchPrice again after a failed call
TaskFetch_RetryOnError(f) ==
    /\ ~crashed /\ tpc[f] = "fetch"
    /\ \E out \in SourceOutcomes[f] :
            IF out.panic
            THEN /\ tpc' = [tpc EXCEPT ![f] = "panicking"]
                 /\ UNCHANGED tret
            ELSE IF out.err # "nil" /\ gets[f] = 0
            THEN UNCHANGED <<tpc, tret>>
            ELSE /\ tpc' = [tpc EXCEPT ![f] = "send"]
                 /\ tret' = [tret EXCEPT ![f] = out]
    /\ gets' = [gets EXCEPT ![f] = @ + 1]
    /\ UNCHANGED <<mpc, next, wg, resultsChan, closed, results, averageUSD, rateResp, ret,
                   crashed, fetchCall>>
    /\ UNCHANGED mainVars

\* price, err := f.FetchPrice(); a panic inside starts unwinding the goroutine
TaskFetch(f) ==
    /\ ~crashed /\ tpc[f] = "fetch"
    /\ \E out \in SourceOutcomes[f] :
            IF out.panic
            THEN /\ tpc' = [tpc EXCEPT ![f] = "panicking"]
                 /\ UNCHANGED tret
            ELSE /\ tpc' = [tpc EXCEPT ![f] = "send"]
                 /\ tret' = [tret EXCEPT ![f] = out]
    /\ gets' = [gets EXCEPT ![f] = @ + 1]
    /\ UNCHANGED <<mpc, next, wg, resultsChan, closed, results, averageUSD, rateResp, ret,
                   crashed, fetchCall>>
    /\ UNCHANGED mainVars

\* the send on a channel made with one slot fewer than there are fetchers
TaskSend_SmallBuffer(f) ==
    /\ ~crashed /\ tpc[f] = "send"
    /\ IF closed
       THEN /\ tpc' = [tpc EXCEPT ![f] = "panicking"]
            /\ UNCHANGED resultsChan
       ELSE /\ Len(resultsChan) < Len(fetchers) - 1
            /\ resultsChan' = Append(resultsChan,
                                     PriceResult(tret[f].price, tret[f].err, f))
            /\ tpc' = [tpc EXCEPT ![f] = "finish"]
    /\ UNCHANGED <<mpc, next, tret, wg, closed, results, averageUSD, rateResp, ret, crashed,
                   fetchCall>>
    /\ UNCHANGED <<gets, mainVars>>

\* resultsChan <- PriceResult{price, err, f.Name()}: blocks while the buffer is
\* full, panics if the channel is closed
TaskSend(f) ==
    /\ ~crashed /\ tpc[f] = "send"
    /\ IF closed
       THEN /\ tpc' = [tpc EXCEPT ![f] = "panicking"]
            /\ UNCHANGED resultsChan
       ELSE /\ Len(resultsChan) < Len(fetchers)
            /\ resultsChan' = Append(resultsChan,
                                     PriceResult(tret[f].price, tret[f].err, f))
            /\ tpc' = [tpc EXCEPT ![f] = "finish"]
    /\ UNCHANGED <<mpc, next, tret, wg, closed, results, averageUSD, rateResp, ret, crashed,
                   fetchCall>>
    /\ UNCHANGED <<gets, mainVars>>

\* the Printf of the outcome, then the deferred wg.Done()
TaskDone(f) ==
    /\ ~crashed /\ tpc[f] = "finish"
    /\ wg' = wg - 1
    /\ tpc' = [tpc EXCEPT ![f] = "done"]
    /\ UNCHANGED <<mpc, next, tret, resultsChan, closed, results, averageUSD, rateResp, ret,
                   crashed, fetchCall>>
    /\ UNCHANGED <<gets, mainVars>>

\* a panicking goroutine runs its deferred calls first: wg.Done()
TaskPanicDefer(f) ==
    /\ ~crashed /\ tpc[f] = "panicking"
    /\ wg' = wg - 1
    /\ tpc' = [tpc EXCEPT ![f] = "dying"]
    /\ UNCHANGED <<mpc, next, tret, resultsChan, closed, results, averageUSD, rateResp, ret,
                   crashed, fetchCall>>
    /\ UNCHANGED <<gets, mainVars>>

\* nothing recovered the panic: the runtime ends the process
Crash(f) ==
    /\ ~crashed /\ tpc[f] = "dying"
    /\ crashed' = TRUE
    /\ UNCHANGED <<mpc, next, tpc, tret, wg, resultsChan, closed, results,
                   averageUSD, rateResp, ret, fetchCall>>
    /\ UNCHANGED <<gets, mainVars>>

\* the orchestrator going on without waiting for the counter to reach zero
WgWait_NoWait ==
    /\ ~crashed /\ mpc = "wait"
    /\ mpc' = "close"
    /\ UNCHANGED <<next, tpc, tret, wg, resultsChan, closed, results, averageUSD, rateResp,
                   ret, crashed, fetchCall>>
    /\ UNCHANGED <<gets, mainVars>>

\* wg.Wait()
WgWait ==
    /\ ~crashed /\ mpc = "wait" /\ wg = 0
    /\ mpc' = "close"
    /\ UNCHANGED <<next, tpc, tret, wg, resultsChan, closed, results, averageUSD, rateResp,
                   ret, crashed, fetchCall>>
    /\ UNCHANGED <<gets, mainVars>>

\* close(resultsChan)
Close ==
    /\ ~crashed /\ mpc = "close"
    /\ closed' = TRUE
    /\ mpc' = "collect"
    /\ UNCHANGED <<next, tpc, tret, wg, resultsChan, results, averageUSD, rateResp, ret,
                   crashed, fetchCall>>
    /\ UNCHANGED <<gets, mainVars>>

\* for result := range resultsChan { results = append(results, result) }
Receive ==
    /\ ~crashed /\ mpc = "collect" /\ resultsChan # <<>>
    /\ results' = Append(results, Head(resultsChan))
    /\ resultsChan' = Tail(resultsChan)
    /\ UNCHANGED <<mpc, next, tpc, tret, wg, closed, averageUSD, rateResp, ret, crashed,
                   fetchCall>>
    /\ UNCHANGED <<gets, mainVars>>

\* the range ends once the channel is closed and drained
RangeEnd ==
    /\ ~crashed /\ mpc = "collect" /\ resultsChan = <<>> /\ closed
    /\ mpc' = "aggregate"
    /\ UNCHANGED <<next, tpc, tret, wg, resultsChan, closed, results, averageUSD, rateResp,
                   ret, crashed, fetchCall>>
    /\ UNCHANGED <<gets, mainVars>>

\* the aggregation without the count == 0 return
Aggregate_NoCountCheck ==
    /\ ~crashed /\ mpc = "aggregate"
    /\ averageUSD' = Average(results)
    /\ mpc' = "rate"
    /\ UNCHANGED <<next, tpc, tret, wg, resultsChan, closed, results, rateResp, ret,
                   crashed, fetchCall>>
    /\ UNCHANGED <<gets, mainVars>>

\* the aggregation returning early only for an empty slice
Aggregate_LenCheck ==
    /\ ~crashed /\ mpc = "aggregate"
    /\ IF Len(results) = 0
       THEN /\ ret' = Return(Zero, "no valid prices found")
            /\ mpc' = "done"
            /\ UNCHANGED averageUSD
       ELSE /\ averageUSD' = Average(results)
            /\ mpc' = "rate"
            /\ UNCHANGED ret
    /\ UNCHANGED <<next, tpc, tret, wg, resultsChan, closed, results, rateResp,
                   crashed, fetchCall>>
    /\ UNCHANGED <<gets, mainVars>>

\* calculateAverageAndConvertToAUD up to its network call: the loop, the
\* count == 0 return, averageUSD
Aggregate ==
    /\ ~crashed /\ mpc = "aggregate"
    /\ IF CountValid(results, 0) = 0
       THEN /\ ret' = Return(Zero, "no valid prices found")
            /\ mpc' = "done"
            /\ UNCHANGED averageUSD
       ELSE /\ averageUSD' = Average(results)
            /\ mpc' = "rate"
            /\ UNCHANGED ret
    /\ UNCHANGED <<next, tpc, tret, wg, resultsChan, closed, results, rateResp,
                   crashed, fetchCall>>
    /\ UNCHANGED <<gets, mainVars>>

\* client.Get(...) of the exchange rates is issued; the caller blocks in it
RateRequest ==
    /\ ~crashed /\ mpc = "rate"
    /\ mpc' = "inflight"
    /\ gets' = [gets EXCEPT ![Rates] = @ + 1]
    /\ UNCHANGED <<next, tpc, tret, wg, resultsChan, closed, results, averageUSD,
                   rateResp, ret, crashed, fetchCall, mainVars>>

\* the exchange-rate GET delivers; the decode, the rate check and the scaling
RateCall ==
    /\ ~crashed /\ mpc = "inflight"
    /\ \E i \in DOMAIN RateResponses :
          /\ rateResp' = RateResponses[i]
          /\ ret' = ConvertToAUD(averageUSD, RateResponses[i])
    /\ mpc' = "done"
    /\ UNCHANGED <<next, tpc, tret, wg, resultsChan, closed, results, averageUSD,
                   crashed, fetchCall>>
    /\ UNCHANGED <<gets, mainVars>>

\* ---------------------------------------------------------------------- main
\* what the scanner may deliver as a line of input
Inputs ==
    <<<<"q">>, <<"Q">>, <<"a", "b", "c">>, <<>>, <<"0">>, <<"-", "5">>,
      Chars(100), Chars(9000)>>

\* strconv.ParseFloat(input, 64) of each
ParsedInputs == [i \in DOMAIN Inputs |-> ParseFloat(Inputs[i])]

\* main going on to the input loop whatever fetchAndCalculatePrice returned
MainReturn_IgnoresError ==
    /\ ~crashed /\ cpc = "call" /\ mpc = "done"
    /\ avgAUD' = ret.price
    /\ mainErr' = ret.err
    /\ line' = Line("Current ETH price in AUD", Unset, ret.price)
    /\ cpc' = "loop"
    /\ UNCHANGED <<mpc, next, tpc, tret, wg, resultsChan, closed, results, averageUSD,
                   rateResp, ret, crashed, fetchCall, gets, calls, reads>>

\* fetchAndCalculatePrice returns to main: on an error main prints it and
\* returns; otherwise it prints the price and enters the input loop
MainReturn ==
    /\ ~crashed /\ cpc = "call" /\ mpc = "done"
    /\ avgAUD' = ret.price
    /\ mainErr' = ret.err
    /\ IF ret.err # "nil"
       THEN /\ line' = Line("Error calculating average", Unset, Unset)
            /\ cpc' = "exit"
       ELSE /\ line' = Line("Current ETH price in AUD", Unset, ret.price)
            /\ cpc' = "loop"
    /\ UNCHANGED <<mpc, next, tpc, tret, wg, resultsChan, closed, results, averageUSD,
                   rateResp, ret, crashed, fetchCall, gets, calls, reads>>

\* the loop fetching the price anew after each conversion
MainInput_Refreshes ==
    /\ ~crashed /\ cpc = "loop" /\ reads < MaxInputs
    /\ \E i \in DOMAIN Inputs :
          LET input == Inputs[i]
              audAmount == ParsedInputs[i]
          IN  IF input = <<"q">> \/ input = <<"Q">>
              THEN /\ line' = Line("Goodbye!", Unset, Unset)
                   /\ cpc' = "exit"
                   /\ UNCHANGED <<calls, avgAUD>>
              ELSE IF ~audAmount.ok
              THEN /\ line' = Line("Invalid input", Unset, Unset)
                   /\ cpc' = "loop"
                   /\ UNCHANGED <<calls, avgAUD>>
              ELSE IF FLeZero(audAmount.v)
              THEN /\ line' = Line("Please enter a positive amount", audAmount.v, Unset)
                   /\ cpc' = "loop"
                   /\ UNCHANGED <<calls, avgAUD>>
              ELSE /\ line' = Line("You can get", audAmount.v, FDiv(audAmount.v, avgAUD))
                   /\ cpc' = "loop"
                   /\ calls' = calls + 1
                   /\ avgAUD' = FMul(avgAUD, FromInt(2))
    /\ reads' = reads + 1
    /\ UNCHANGED <<mpc, next, tpc, tret, wg, resultsChan, closed, results, averageUSD,
                   rateResp, ret, crashed, fetchCall, gets, mainErr>>

\* one pass of the loop on a line of input: quit, reject, or convert
MainInput ==
    /\ ~crashed /\ cpc = "loop" /\ reads < MaxInputs
    /\ \E i \in DOMAIN Inputs :
          LET input == Inputs[i]
              audAmount == ParsedInputs[i]
          IN  IF input = <<"q">> \/ input = <<"Q">>
              THEN /\ line' = Line("Goodbye!", Unset, Unset)
                   /\ cpc' = "exit"
              ELSE IF ~audAmount.ok
              THEN /\ line' = Line("Invalid input", Unset, Unset)
                   /\ cpc' = "loop"
              ELSE IF FLeZero(audAmount.v)
              THEN /\ line' = Line("Please enter a positive amount", audAmount.v, Unset)
                   /\ cpc' = "loop"
              ELSE /\ line' = Line("You can get", audAmount.v, FDiv(audAmount.v, avgAUD))
                   /\ cpc' = "loop"
    /\ reads' = reads + 1
    /\ UNCHANGED <<mpc, next, tpc, tret, wg, resultsChan, closed, results, averageUSD,
                   rateResp, ret, crashed, fetchCall, gets, calls, avgAUD, mainErr>>

\* scanner.Scan() returns false (end of input): the loop ends and main returns
MainEOF ==
    /\ ~crashed /\ cpc = "loop"
    /\ cpc' = "exit"
    /\ UNCHANGED <<mpc, next, tpc, tret, wg, resultsChan, closed, results, averageUSD,
                   rateResp, ret, crashed, fetchCall, gets, calls, avgAUD, mainErr, reads, line>>

Next ==
    \/ Launch
    \/ \E f \in Names : TaskFetch(f)
    \/ \E f \in Names : TaskSend(f)
    \/ \E f \in Names : TaskDone(f)
    \/ \E f \in Names : TaskPanicDefer(f)
    \/ \E f \in Names : Crash(f)
    \/ WgWait
    \/ Close
    \/ Receive
    \/ RangeEnd
    \/ Aggregate
    \/ RateRequest
    \/ RateCall
    \/ MainCall
    \/ MainReturn
    \/ MainInput
    \/ MainEOF

Spec == Init /\ [][Next]_vars

\* ------------------------------------------------------------ scheduling
\* the steps of one fetch goroutine, and of the goroutine running main
Task(f) == TaskFetch(f) \/ TaskSend(f) \/ TaskDone(f) \/ TaskPanicDefer(f) \/ Crash(f)
Orchestrator ==
    \/ MainCall \/ Launch \/ WgWait \/ Close \/ Receive \/ RangeEnd \/ Aggregate
    \/ RateRequest \/ RateCall \/ MainReturn

\* the Go scheduler runs every goroutine that can take a step, and every GET
\* ends (client.Timeout): no goroutine able to step waits forever.  Nothing
\* obliges the user to type: main's input loop is under no fairness.
Fairness == WF_vars(Orchestrator) /\ \A f \in Names : WF_vars(Task(f))

SpecLive == Init /\ [][Next]_vars /\ Fairness

\* ----------------------------------------- one FetchPrice call, any response
PriceStrings ==
    <<Chars(3010), <<"3", "0", "1", "0", ".", "5">>, <<"+", "7">>, <<"0">>,
      <<"-", "1">>, <<>>, <<"3", ",", "0", "1", "0">>, <<".">>,
      <<"N", "a", "N">>, <<"n", "a", "n">>, <<"I", "n", "f">>,
      <<"-", "i", "n", "f", "i", "n", "i", "t", "y">>>>

Bodies ==
    <<KrakenBody(<<>>), JBad, JNull, JObj(<<>>), JArr(<<JStr(Chars(1))>>),
      CoinGeckoBody(2991), CoinGeckoBody(0), CoinGeckoBody(-5),
      Obj1("ethereum", JObj(<<>>)), Obj1("bitcoin", Obj1("usd", JNum(2991, 1))),
      Obj1("ethereum", Obj1("usd", JStr(Chars(2991)))),
      Obj1("ethereum", Obj1("usd", JNum(300050, 100))),
      Obj1("data", JObj(<<>>)), Obj1("data", Obj1("amount", JNum(3010, 1))),
      Obj1("high", JStr(Chars(3100))), Obj1("last", JNum(3001, 1)),
      Obj1("error", JArr(<<JStr(<<"E">>)>>)), Obj1("result", JObj(<<>>)),
      Obj1("result", Obj1("XETHZUSD", JObj(<<>>))),
      Obj1("result", Obj1("XETHZUSD", Obj1("c", JArr(<<JNum(3000, 1)>>)))),
      Obj1("result", Obj2("XETHZUSD", Obj1("c", JArr(<<JStr(Chars(3000))>>)),
                          "XXBTZUSD", Obj1("c", JArr(<<JStr(Chars(9000))>>)))),
      Obj1("result", Obj2("XETHZUSD", Obj1("c", JArr(<<JStr(Chars(3000))>>)),
                          "XXBTZUSD", Obj1("c", JArr(<<>>)))),
      BitfinexBody(BitfinexLen, 0), BitfinexBody(BitfinexLen, -5),
      JArr([i \in 1..BitfinexLen |-> JNum(310025 + i - BitfinexLen, 100)]),
      JArr([i \in 1..BitfinexLen |-> JStr(Chars(i))])>>
    \o [i \in 1..Len(PriceStrings) |-> CoinbaseBody(PriceStrings[i])]
    \o [i \in 1..Len(PriceStrings) |-> BitstampBody(PriceStrings[i])]
    \o [i \in 1..Len(PriceStrings) |-> KrakenBody(<<JStr(PriceStrings[i]), JStr(Chars(1))>>)]
    \o [i \in 1..(MaxArr + 1) |-> BitfinexBody(i - 1, 2990)]

Statuses == <<StatusOK, 201, 404, 500>>

FetchResponses ==
    <<NetErr>>
    \o [i \in 1..Len(Bodies) |-> Response(FALSE, StatusOK, TRUE, Bodies[i])]
    \o [i \in 1..(Len(Bodies) * Len(Statuses)) |->
          Response(FALSE, Statuses[((i - 1) % Len(Statuses)) + 1], FALSE,
                   Bodies[((i - 1) \div Len(Statuses)) + 1])]

Idle ==
    /\ next = 1
    /\ tpc = [f \in Names |-> "idle"]
    /\ tret = [f \in Names |-> NoFetch]
    /\ wg = 0
    /\ resultsChan = <<>>
    /\ closed = FALSE
    /\ averageUSD = Unset
    /\ rateResp = NoResponse
    /\ ret = NoReturn
    /\ crashed = FALSE
    /\ gets = NoGets
    /\ calls = 0
    /\ cpc = "start"
    /\ avgAUD = Unset
    /\ mainErr = "unset"
    /\ reads = 0
    /\ line = NoLine

InitFetch ==
    /\ Idle
    /\ mpc = "off"
    /\ results = <<>>
    /\ \E i \in DOMAIN FetchResponses : \E n \in Names :
          fetchCall = [name |-> n, resp |-> FetchResponses[i], out |-> NoFetch]

CallFetchPrice ==
    /\ fetchCall.out = NoFetch
    /\ \E out \in FetchPrice(fetchCall.name, fetchCall.resp) :
          fetchCall' = [fetchCall EXCEPT !.out = out]
    /\ UNCHANGED <<mpc, next, tpc, tret, wg, resultsChan, closed, results,
                   averageUSD, rateResp, ret, crashed>>
    /\ UNCHANGED <<gets, mainVars>>

NextFetch == CallFetchPrice

SpecFetch == InitFetch /\ [][NextFetch]_vars

\* ------------------------- one calculateAverageAndConvertToAUD call, any slice
\* the (price, err) pairs FetchPrice hands to a PriceResult
Outcomes ==
    <<FetchOut(FromInt(2990), "nil", FALSE), FetchOut(FromInt(2991), "nil", FALSE),
      FetchOut(FromInt(3001), "nil", FALSE), FetchOut(FromInt(3010), "nil", FALSE),
      FetchOut(Zero, "request failed", FALSE)>>

NameAt(i) == fetchers[((i - 1) % Len(fetchers)) + 1]

ResultSlices ==
    UNION { { [i \in 1..n |-> PriceResult(Outcomes[c[i]].price, Outcomes[c[i]].err, NameAt(i))]
              : c \in [1..n -> DOMAIN Outcomes] }
            : n \in 0..MaxResults }

InitCalc ==
    /\ Idle
    /\ mpc = "aggregate"
    /\ results \in ResultSlices
    /\ fetchCall = NoCall

NextCalc == Aggregate \/ RateRequest \/ RateCall

SpecCalc == InitCalc /\ [][NextCalc]_vars

\* ================================================================== claims
\* the failure classes of the design, by the message the code returns
FailureClass(err) ==
    CASE err \in {"request failed", "reading body failed"} -> "NetworkFailure"
      [] err = "non-OK status code" -> "HTTPStatusFailure"
      [] err = "parsing response failed" -> "DecodeFailure"
      [] err = "invalid price" -> "InvalidValueFailure"
      [] err = "no valid prices found" -> "NoValidPricesFailure"
      [] err \in {"failed to get exchange rates", "failed to decode exchange rates"}
            -> "RateFetchFailure"
      [] err = "invalid exchange rates" -> "InvalidRateFailure"
      [] OTHER -> "none"

PastBarrier == {"close", "collect", "aggregate", "rate", "inflight", "done"}
Handed == {"aggregate", "rate", "inflight", "done"}
Fetched(f) == tpc[f] \notin {"idle", "fetch"}
HasOutcome(f) == tret[f].err # "unset"
Successes(rs) == SelectSeq(rs, LAMBDA r : r.err = "nil")
Failures(rs) == SelectSeq(rs, LAMBDA r : r.err # "nil")

\* C1: once the orchestrator is past wg.Wait(), every one of the fetch
\* goroutines has finished, holding a price or a failure.
C1_BarrierAfterEveryTask ==
    mpc \in PastBarrier => \A f \in Names : tpc[f] = "done" /\ HasOutcome(f)

\* C2: the slice handed to the aggregator holds exactly one outcome per
\* adapter, N in all, of which N - M are successes when M fetches failed.
C2_OneOutcomePerAdapter ==
    mpc \in Handed =>
        /\ Len(results) = Len(fetchers)
        /\ \A f \in Names : Cardinality({i \in DOMAIN results : results[i].name = f}) = 1
        /\ Len(Successes(results))
             = Len(fetchers) - Cardinality({f \in Names : tret[f].err # "nil"})

\* C3: whatever a source answers, its task ends up holding a PriceOutcome, and
\* no sibling task is cut short: if the process is gone, every sibling had
\* already run to completion.
C3_FailureContained ==
    \A f \in Names :
        Fetched(f) => /\ HasOutcome(f)
                      /\ \A g \in Names \ {f} : crashed => tpc[g] = "done"

\* ---- the aggregator
RECURSIVE FoldAdd(_, _)
FoldAdd(rs, acc) == IF rs = <<>> THEN acc ELSE FoldAdd(Tail(rs), FAdd(acc, Head(rs).price))

\* the running float64 sum of the successful prices, in slice order, over
\* their number
MeanOf(rs) == FDiv(FoldAdd(Successes(rs), Zero), FromInt(Len(Successes(rs))))

Permuted(rs, p) == [i \in 1..Len(rs) |-> rs[p[i]]]

\* p keeps the successes of rs in their relative order
KeepsSuccessOrder(rs, p) == Successes(Permuted(rs, p)) = Successes(rs)

\* C4 (as stated): the mean is sum/count over the successes and is the same
\* for every permutation of the outcomes.
C4_MeanPermutationInvariant ==
    mpc = "rate" =>
        /\ averageUSD = MeanOf(results)
        /\ \A p \in Permutations(1..Len(results)) :
              Average(Permuted(results, p)) = averageUSD

\* C4 (amended): the mean is the float64 sum of the successful prices,
\* accumulated in slice order, over their number; failed outcomes, wherever
\* they stand, contribute nothing; and every permutation gives the same mean
\* when at most two outcomes succeeded or the successes keep their order.
C4_MeanOfSuccessesInOrder ==
    mpc = "rate" =>
        /\ averageUSD = MeanOf(results)
        /\ \A p \in Permutations(1..Len(results)) :
              (Len(Successes(results)) <= 2 \/ KeepsSuccessOrder(results, p))
                 => Average(Permuted(results, p)) = averageUSD

C4_Witness ==
    /\ mpc = "rate"
    /\ Len(Successes(results)) = 3
    /\ Len(Failures(results)) >= 1
    /\ results[1].err # "nil"

\* C5: with no successful outcome (an empty slice included) the aggregator
\* returns the "no valid prices found" failure: no mean is computed, no rate
\* is fetched, and what it returns is not a price.
C5_NoValidPricesFailure ==
    (Len(Successes(results)) = 0 /\ mpc # "aggregate") =>
        /\ mpc = "done"
        /\ ret.err # "nil"
        /\ FailureClass(ret.err) = "NoValidPricesFailure"
        /\ averageUSD = Unset
        /\ rateResp = NoResponse

C5_Witness ==
    /\ mpc = "done"
    /\ Len(results) = 2
    /\ Len(Successes(results)) = 0
    /\ ret.err = "no valid prices found"

\* ---- one FetchPrice call
Returned == fetchCall.out # NoFetch
Delivered == ~fetchCall.resp.neterr /\ ~fetchCall.resp.readerr /\ fetchCall.resp.status = 200

\* C6: what FetchPrice returns is either a strictly positive price with no
\* error, or an error with the price 0.
C6_PriceXorFailure ==
    (Returned /\ ~fetchCall.out.panic) =>
        \/ fetchCall.out.err = "nil" /\ FPositive(fetchCall.out.price)
        \/ fetchCall.out.err # "nil" /\ fetchCall.out.price = Zero

\* C7: a response whose status is not 200 makes FetchPrice fail with the
\* status failure and price 0, whatever its body holds.
C7_Non200IsStatusFailure ==
    (Returned /\ ~fetchCall.resp.neterr /\ fetchCall.resp.status # 200) =>
        /\ ~fetchCall.out.panic
        /\ FailureClass(fetchCall.out.err) = "HTTPStatusFailure"
        /\ fetchCall.out.price = Zero

C7_Witness ==
    /\ Returned
    /\ fetchCall.name = "CoinGecko"
    /\ fetchCall.resp = Response(FALSE, 500, FALSE, CoinGeckoBody(2991))
    /\ fetchCall.out.err = "non-OK status code"

\* a payload that is not JSON, or lacks (or mistypes) the element its
\* variant's price is read from
Has(j, key, t) == j.t = "obj" /\ key \in DOMAIN j.v /\ j.v[key].t = t
MalformedOrShort(name, body) ==
    CASE name = "CoinGecko" ->
            ~(Has(body, "ethereum", "obj") /\ Has(body.v["ethereum"], "usd", "num"))
      [] name = "Coinbase" ->
            ~(Has(body, "data", "obj") /\ Has(body.v["data"], "amount", "str"))
      [] name = "Bitstamp" -> ~Has(body, "last", "str")
      [] name = "Kraken" ->
            ~(/\ Has(body, "result", "obj")
              /\ DOMAIN body.v["result"].v # {}
              /\ \A k \in DOMAIN body.v["result"].v :
                    /\ Has(body.v["result"].v[k], "c", "arr")
                    /\ Len(body.v["result"].v[k].v["c"].v) >= 1
                    /\ body.v["result"].v[k].v["c"].v[1].t = "str")
      [] name = "Bitfinex" ->
            ~(body.t = "arr" /\ Len(body.v) >= 7 /\ \A i \in DOMAIN body.v : body.v[i].t = "num")

\* C8: a malformed or short payload makes FetchPrice return the decode
\* failure: no price, no other failure class, no panic.
C8_ShortPayloadIsDecodeFailure ==
    (Returned /\ Delivered /\ MalformedOrShort(fetchCall.name, fetchCall.resp.body)) =>
        /\ ~fetchCall.out.panic
        /\ FailureClass(fetchCall.out.err) = "DecodeFailure"
        /\ fetchCall.out.price = Zero

\* C9: Bitfinex, given a list of numbers, takes the element at index 6 when
\* the list has at least 7 elements (a non-positive one is then refused as an
\* invalid price), and fails with the decode failure, without panicking, for
\* every shorter list.
IsNumberList(j) == j.t = "arr" /\ \A i \in DOMAIN j.v : j.v[i].t = "num"
C9_BitfinexIndexSix ==
    (Returned /\ Delivered /\ fetchCall.name = "Bitfinex"
       /\ IsNumberList(fetchCall.resp.body)) =>
        LET data == fetchCall.resp.body.v
            x == FromRatio(data[7].v[1], data[7].v[2])
        IN  /\ ~fetchCall.out.panic
            /\ Len(data) < 7 =>
                  /\ FailureClass(fetchCall.out.err) = "DecodeFailure"
                  /\ fetchCall.out.price = Zero
            /\ (Len(data) >= 7 /\ FPositive(x)) =>
                  fetchCall.out = FetchOut(x, "nil", FALSE)
            /\ (Len(data) >= 7 /\ ~FPositive(x)) =>
                  FailureClass(fetchCall.out.err) = "InvalidValueFailure"

C9_Witness ==
    /\ Returned /\ Delivered
    /\ fetchCall.name = "Bitfinex"
    /\ fetchCall.resp.body = BitfinexBody(7, 2990)
    /\ fetchCall.out = FetchOut(FromInt(2990), "nil", FALSE)

\* ---- the rate converter
UsdRate == NumOf(Get(Get(rateResp.body, "ethereum"), "usd"))
AudRate == NumOf(Get(Get(rateResp.body, "ethereum"), "aud"))
SuccessPrices == {results[i].price : i \in {j \in DOMAIN results : results[j].err = "nil"}}
EndToEndCase ==
    /\ Len(Successes(results)) = 3
    /\ Len(Failures(results)) = 2
    /\ SuccessPrices = {FromInt(2990), FromInt(3010), FromInt(3000)}
    /\ rateResp = OK(RatesBody(3000, 4500))

\* C10: a successful conversion returns averageUSD * (audRate / usdRate), both
\* rates read from the one exchange-rate response; rates 3000 and 4500 scale a
\* mean of 3000 to 4500, and successes {2990, 3010, 3000} with two failures
\* give the mean 3000 and the final price 4500.
C10_ConvertedPrice ==
    (mpc = "done" /\ ret.err = "nil") =>
        /\ ret.price = FMul(averageUSD, FDiv(AudRate, UsdRate))
        /\ (averageUSD = FromInt(3000) /\ rateResp = OK(RatesBody(3000, 4500)))
              => ret.price = FromInt(4500)
        /\ EndToEndCase => (averageUSD = FromInt(3000) /\ ret.price = FromInt(4500))

C10_Witness ==
    /\ mpc = "done"
    /\ EndToEndCase
    /\ ret = Return(FromInt(4500), "nil")

\* ---- the exchange-rate stage
\* the exchange-rate call has been made and calculateAverageAndConvertToAUD
\* has returned
RateReturned == mpc = "done" /\ gets[Rates] = 1

\* the response body cannot be decoded as an object of objects of numbers
Undecodable(resp) == resp.readerr \/ resp.body.t = "bad" \/ ~FitsMapMapFloat(resp.body)

\* the response carries no non-zero number at ethereum.<cur>
ZeroOrMissing(resp, cur) ==
    ~(/\ Has(resp.body, "ethereum", "obj")
      /\ Has(resp.body.v["ethereum"], cur, "num")
      /\ resp.body.v["ethereum"].v[cur].v[1] # 0)

\* C11: the rate converter returns the RateFetchFailure on a transport or
\* decode error of the exchange-rate call, and the InvalidRateFailure when the
\* usd or the aud rate is zero or missing; with neither does it return a price.
C11_RateFailures ==
    RateReturned =>
        /\ (rateResp.neterr \/ Undecodable(rateResp)) =>
              /\ FailureClass(ret.err) = "RateFetchFailure"
              /\ ret.price = Zero
        /\ (/\ ~rateResp.neterr /\ ~Undecodable(rateResp)
            /\ (ZeroOrMissing(rateResp, "usd") \/ ZeroOrMissing(rateResp, "aud"))) =>
              /\ FailureClass(ret.err) = "InvalidRateFailure"
              /\ ret.price = Zero

C11_Witness ==
    /\ RateReturned
    /\ rateResp = OK(RatesBody(3000, 0))
    /\ ret = Return(Zero, "invalid exchange rates")

\* a fetch goroutine that still has a statement of its function to run
Running(f) == tpc[f] \in {"fetch", "send", "finish", "panicking"}

\* C12: while the exchange-rate request is in flight the orchestrator is past
\* wg.Wait() and no fetch goroutine is running: each was launched, issued its
\* one request, and has left its function (returned, or unwound by a panic).
C12_RateCallAfterBarrier ==
    mpc = "inflight" =>
        /\ wg = 0 /\ next > Len(fetchers)
        /\ \A f \in Names : ~Running(f) /\ tpc[f] # "idle" /\ gets[f] = 1

C12_Witness ==
    /\ mpc = "inflight"
    /\ gets[Rates] = 1
    /\ \A f \in Names : tpc[f] = "done"

\* ---- main and the pipeline's failures
FatalClasses == {"NoValidPricesFailure", "RateFetchFailure", "InvalidRateFailure"}

\* C13: the error calculateAverageAndConvertToAUD returns is the error main
\* receives from fetchAndCalculatePrice; every failure of the pipeline is one
\* of the three fatal classes; and on it main prints the error and returns:
\* it reads no input and computes no conversion from the accompanying price.
C13_FailureSurfaces ==
    /\ (mpc = "done" /\ ret.err # "nil") => FailureClass(ret.err) \in FatalClasses
    /\ cpc \in {"loop", "exit"} => mainErr = ret.err /\ avgAUD = ret.price
    /\ (cpc \in {"loop", "exit"} /\ ret.err # "nil") =>
          /\ cpc = "exit"
          /\ line = Line("Error calculating average", Unset, Unset)
          /\ reads = 0

C13_Witness ==
    /\ cpc = "exit"
    /\ ret = Return(Zero, "invalid exchange rates")
    /\ mainErr = "invalid exchange rates"
    /\ line.kind = "Error calculating average"

\* C14: no source is requested more than once and the exchange rates are
\* requested at most once; once the barrier is passed every source has been
\* requested exactly once, whichever requests failed.
C14_NoRetry ==
    /\ \A f \in Names : gets[f] <= 1
    /\ gets[Rates] <= 1
    /\ mpc \in PastBarrier => \A f \in Names : gets[f] = 1

C14_Witness ==
    /\ mpc = "done"
    /\ tret["CoinGecko"].err = "request failed"
    /\ tret["Coinbase"].err = "non-OK status code"
    /\ rateResp = NetErr
    /\ \A f \in Names : gets[f] = 1
    /\ gets[Rates] = 1

\* ---- termination
\* the request timed out: client.Get failed, or the body read was cut off
TimedOut(resp) == resp.neterr \/ (resp.status = StatusOK /\ resp.readerr)

\* C15 (the outcome of a timeout): a FetchPrice call whose request timed out
\* returns a NetworkFailure-class error and no price.
C15_TimeoutIsNetworkFailure ==
    (Returned /\ TimedOut(fetchCall.resp)) =>
        /\ ~fetchCall.out.panic
        /\ FailureClass(fetchCall.out.err) = "NetworkFailure"
        /\ fetchCall.out.price = Zero

\* C15: under fair scheduling, with every GET ending, every fetch goroutine
\* eventually finishes, wg.Wait() eventually returns, and
\* fetchAndCalculatePrice eventually returns a price or an error.
C15_EventuallyReturns ==
    /\ <>(\A f \in Names : tpc[f] = "done")
    /\ <>(mpc \in PastBarrier)
    /\ <>(mpc = "done" /\ ret.err # "unset")

\* ---- positivity
\* C16: whenever calculateAverageAndConvertToAUD returns without error, the
\* mean, the ratio audRate / usdRate and the returned price are all strictly
\* positive, and so is the avgAUD main divides by.
C16_PositiveOnSuccess ==
    /\ (mpc = "done" /\ ret.err = "nil") =>
          /\ FPositive(averageUSD)
          /\ FPositive(FDiv(AudRate, UsdRate))
          /\ FPositive(ret.price)
    /\ line.kind = "You can get" => FPositive(avgAUD)

\* ---- main's reference price
\* C17: main calls fetchAndCalculatePrice once, before its loop; from then on
\* avgAUD is the price that call returned, no source and no rate is requested
\* again, and every conversion printed is the amount read divided by that
\* price, whatever inputs were converted or rejected before.
C17_PriceFetchedOnce ==
    /\ calls = (IF cpc = "start" THEN 0 ELSE 1)
    /\ cpc \in {"loop", "exit"} =>
          /\ avgAUD = ret.price
          /\ gets[Rates] <= 1 /\ \A f \in Names : gets[f] = 1
    /\ line.kind = "You can get" =>
          /\ mainErr = "nil"
          /\ line.eth = FDiv(line.aud, ret.price)

C17_Witness ==
    /\ cpc = "loop"
    /\ reads = MaxInputs
    /\ line = Line("You can get", FromInt(100), FDiv(FromInt(100), FromInt(4500)))
    /\ ret = Return(FromInt(4500), "nil")
    /\ calls = 1

\* ---- the result channel
\* the fork-join: from the first launch to the end of the collecting range
ForkJoin == {"launch", "wait", "close", "collect"}
ForkJoinStep ==
    \/ Launch \/ WgWait \/ Close \/ Receive \/ RangeEnd
    \/ \E f \in Names : Task(f)

\* C18: the channel never holds more than len(fetchers) results and nothing
\* is received before wg.Wait() has returned, yet a goroutine that has its
\* result can always send it; and while the fork-join is under way some
\* goroutine can always take a step (it cannot deadlock).
C18_SendNeverBlocks ==
    /\ Len(resultsChan) <= Len(fetchers)
    /\ mpc \in {"launch", "wait", "close"} => results = <<>>
    /\ \A f \in Names : (~crashed /\ tpc[f] = "send") => ENABLED TaskSend(f)
    /\ (~crashed /\ mpc \in ForkJoin) => ENABLED ForkJoinStep

C18_Witness ==
    /\ mpc = "wait"
    /\ Len(resultsChan) = Len(fetchers) - 1
    /\ results = <<>>
    /\ \E f \in Names : tpc[f] = "send"

\* a goroutine that has performed its send
Sent(f) == tpc[f] \in {"finish", "done"}

\* C19: the channel is closed only once every fetch goroutine has performed
\* its send; no goroutine is at its send with the channel closed; and the
\* collecting range ends with the channel empty, having read exactly the
\* results that were sent.
C19_CloseAfterAllSends ==
    /\ closed => \A f \in Names : Sent(f)
    /\ \A f \in Names : ~(closed /\ tpc[f] = "send")
    /\ mpc \in Handed =>
          /\ resultsChan = <<>>
          /\ Len(results) = Cardinality({f \in Names : Sent(f)})

\* ---- no rate call without a price
\* C20: the exchange rates are requested only in a run with at least one
\* successful result; a run in which no source succeeded ends with the
\* "no valid prices found" failure and no exchange-rate request issued.
C20_NoRateCallWithoutSuccess ==
    /\ (mpc \in {"rate", "inflight"} \/ gets[Rates] > 0) => Len(Successes(results)) >= 1
    /\ (mpc = "done" /\ Len(Successes(results)) = 0) =>
          /\ ret = Return(Zero, "no valid prices found")
          /\ gets[Rates] = 0
          /\ rateResp = NoResponse

C20_Witness ==
    /\ mpc = "done"
    /\ cpc = "exit"
    /\ Len(results) = Len(fetchers)
    /\ Len(Successes(results)) = 0
    /\ gets[Rates] = 0
    /\ mainErr = "no valid prices found"
====
